---- MODULE Spec2Model ----
(***************************************************************************)
(* Lec2Notes RAG: the request handlers of app.py and the pipeline of       *)
(* rag_pipeline.py as a state machine.                                     *)
(*                                                                         *)
(* Text is a sequence of tokens.  A token is a word, a whitespace token    *)
(* (" ", "\n", "\n\n") or a replacement field ("{context}", "{question}",  *)
(* "{x}").  A transcript is represented by its length in tokens and a      *)
(* chunk by the token range it covers.  Scores are FAISS L2 distances in   *)
(* tenths (10 stands for 1.0).  Timestamps are readings of a wall clock.   *)
(***************************************************************************)
EXTENDS Integers, Sequences, FiniteSets, TLC

VARIABLES
    documents,          \* documents_col: set of document records
    faiss,              \* the FAISS_DIR directory: faiss_path -> saved index
    sessions,           \* sessions_col: set of session records
    messages,           \* messages_col: message records in insertion order
    selected_formats,   \* app.py global: session_id -> format choice
    notes_download,     \* app.py global: last generated notes
    files,              \* files written by the download handlers: path -> content
    clock,              \* the wall clock read by datetime.now()
    calls,              \* the /chat requests in flight, one per worker thread
    workers,            \* number of threadpool workers serving /chat
    last,               \* the response of the most recent non-chat request
    last_load,          \* the most recent load_retriever invocation
    generated,          \* history: text returned by the latest successful generate-notes
    overlapped          \* history: sessions that had two /chat requests in flight at once

vars == <<documents, faiss, sessions, messages, selected_formats, notes_download,
          files, clock, calls, workers, last, last_load, generated, overlapped>>

---------------------------------------------------------------------------
\* Bounds of the model

MaxCalls == 2
MaxClock == 3
MaxDocuments == 1
MaxSessions == 1

\* Program constants

DEFAULT_CHUNK_SIZE == 1000
DEFAULT_CHUNK_OVERLAP == 200
NOTES_RETRIEVER_K == 5
CHAT_K == 3
SIMILARITY_THRESHOLD == 10

---------------------------------------------------------------------------
\* Small helpers

Min(a, b) == IF a <= b THEN a ELSE b

Range(s) == {s[i] : i \in DOMAIN s}

EmptyMap == [x \in {} |-> x]

None == {}

Some(v) == {v}

The(opt) == CHOOSE v \in opt : TRUE

---------------------------------------------------------------------------
\* Text

IsSpace(t) == t \in {" ", "\n", "\n\n"}

RECURSIVE LStrip(_)
LStrip(s) ==
    IF s # <<>> /\ IsSpace(Head(s)) THEN LStrip(Tail(s)) ELSE s

RECURSIVE RStrip(_)
RStrip(s) ==
    IF s # <<>> /\ IsSpace(s[Len(s)]) THEN RStrip(SubSeq(s, 1, Len(s) - 1)) ELSE s

\* str.strip()
Strip(s) == RStrip(LStrip(s))

\* sep.join(parts)
RECURSIVE Join(_, _)
Join(parts, sep) ==
    IF parts = <<>> THEN <<>>
    ELSE IF Len(parts) = 1 THEN parts[1]
    ELSE parts[1] \o sep \o Join(Tail(parts), sep)

Fields == {"{context}", "{question}", "{x}"}

\* The replacement fields a template names and the keyword arguments do not give:
\* str.format and ChatPromptTemplate.format_messages raise KeyError on them.
MissingFields(template, kwargs) == (Range(template) \cap Fields) \ DOMAIN kwargs

\* The template with every replacement field replaced by its argument.
RECURSIVE Substitute(_, _)
Substitute(template, kwargs) ==
    IF template = <<>> THEN <<>>
    ELSE (IF Head(template) \in DOMAIN kwargs
            THEN kwargs[Head(template)]
            ELSE <<Head(template)>>)
         \o Substitute(Tail(template), kwargs)

---------------------------------------------------------------------------
\* Inputs

Users == {"alice", "bob"}

QIn == <<"q_in">>
QEdge == <<"q_edge", "{question}">>
QOut == <<"q_out">>
Queries == {QIn, QEdge, QOut}

NotesQuery == <<"Generate structured lecture notes.">>

\* What the hosted model may answer in a chat.
Responses == {<<"r1">>, <<"r2", "{x}">>}

\* What the hosted model may answer to a notes prompt.
NoteTexts == {<<" ">>, <<"notes">>, <<"\n", "notes", " ">>}

UnknownDocId == "d9"
UnknownSessionId == "s9"

---------------------------------------------------------------------------
\* rag_pipeline.py: chunking, index, retrieval

RECURSIVE SplitFrom(_, _, _, _, _)
SplitFrom(n, no, start_idx, chunk_size, chunk_overlap) ==
    LET cur_idx == Min(start_idx + chunk_size, n)
        chunk == [no |-> no, start |-> start_idx, end |-> cur_idx]
    IN  IF start_idx >= n THEN <<>>
        ELSE IF cur_idx = n THEN <<chunk>>
        ELSE <<chunk>> \o SplitFrom(n, no + 1, start_idx + chunk_size - chunk_overlap,
                                    chunk_size, chunk_overlap)

\* TokenTextSplitter(chunk_size, chunk_overlap).split_documents([Document(text)])
chunk_text(text, chunk_size, chunk_overlap) ==
    SplitFrom(text, 0, 0, chunk_size, chunk_overlap)

ChunkTokens == <<"chunk0", "chunk1", "chunk2", "chunk3", "chunk4", "chunk5", "chunk6", "chunk7">>

\* page_content of a chunk: the slice of the transcript it covers, as one token
PageContent(chunk) == <<ChunkTokens[chunk.no + 1]>>

\* The L2 distance between the embeddings of a query and of a chunk, in tenths.
Distance(q, chunk) ==
    CASE q = QIn -> 4 + 2 * chunk.no
      [] q = QEdge -> 10 + chunk.no
      [] q = QOut -> 16 - chunk.no
      [] OTHER -> 3 + chunk.no

RECURSIVE NearestFirst(_, _)
NearestFirst(S, q) ==
    IF S = {} THEN <<>>
    ELSE LET best == CHOOSE c \in S : \A d \in S :
                        \/ Distance(q, c) < Distance(q, d)
                        \/ Distance(q, c) = Distance(q, d) /\ c.no <= d.no
         IN  <<[doc |-> best, score |-> Distance(q, best)]>> \o NearestFirst(S \ {best}, q)

\* vectorstore.similarity_search_with_score(query, k): the k nearest chunks, or
\* all of them when the index holds fewer.
similarity_search_with_score(index, q, k) ==
    LET all == NearestFirst(Range(index), q)
    IN  SubSeq(all, 1, Min(k, Len(all)))

FaissPath(username, document_id) == <<username, document_id>>

NoLoad == [username |-> "", document_id |-> "", found |-> FALSE, index |-> <<>>]

\* A lookup by document id alone, whoever owns the record.
load_retriever_by_id(username, document_id) ==
    LET docs == {d \in documents : d.id = document_id}
    IN  IF docs = {}
          THEN [username |-> username, document_id |-> document_id,
                found |-> FALSE, index |-> <<>>]
          ELSE [username |-> username, document_id |-> document_id,
                found |-> TRUE, index |-> faiss[(CHOOSE d \in docs : TRUE).faiss_path]]

\* load_retriever(username, document_id): the document record is looked up by id
\* and owner; doc["faiss_path"] raises TypeError when find_one returned None.
load_retriever(username, document_id) ==
    LET docs == {d \in documents : d.id = document_id /\ d.username = username}
    IN  IF docs = {}
          THEN [username |-> username, document_id |-> document_id,
                found |-> FALSE, index |-> <<>>]
          ELSE [username |-> username, document_id |-> document_id,
                found |-> TRUE, index |-> faiss[(CHOOSE d \in docs : TRUE).faiss_path]]

---------------------------------------------------------------------------
\* rag_pipeline.py: chat_with_transcript, called by the /chat handler of app.py.
\* FastAPI runs a sync handler on a threadpool worker, so requests interleave
\* between the steps below.

Calls == 1 .. MaxCalls

IdleCall ==
    [pc |-> "idle", session_id |-> "", user_query |-> <<>>, retriever |-> <<>>,
     chat_docs |-> <<>>, chat_history |-> <<>>, docs_with_scores |-> <<>>,
     is_out_of_context |-> FALSE, prompt |-> <<>>, response |-> <<>>, answer |-> <<>>,
     ts_human |-> 0, ts_assistant |-> 0, error |-> ""]

Active(c) == calls[c].pc \notin {"idle", "done", "failed"}

Fail(c, error) == [calls EXCEPT ![c].pc = "failed", ![c].error = error]

\* messages_col.find({"session_id": session_id})
find_messages(session_id) ==
    {messages[i] : i \in {j \in DOMAIN messages : messages[j].session_id = session_id}}

\* .sort("timestamp", 1): every order of the records that is ascending in the
\* timestamp; records with equal timestamps come in any order.
RECURSIVE sort_by_timestamp(_)
sort_by_timestamp(S) ==
    IF S = {} THEN {<<>>}
    ELSE UNION {{<<m>> \o rest : rest \in sort_by_timestamp(S \ {m})} :
                m \in {x \in S : \A y \in S : x.timestamp <= y.timestamp}}

\* The history loop: a "human" record becomes a HumanMessage, any other record a
\* SystemMessage; (m.type, m.content) is what the prompt gets of it.
to_chat_message(msg) ==
    [type |-> IF msg.role = "human" THEN "human" ELSE "system", content |-> msg.content]

\* A comparison that counts the threshold itself as out of context.
IsOutOfContext_AtThreshold(top_score) == top_score >= SIMILARITY_THRESHOLD

\* line 122
IsOutOfContext(top_score) == top_score > SIMILARITY_THRESHOLD

DisclaimerPrefix == <<"\n", "NOTE_OUTSIDE_SCOPE_GENERAL_KNOWLEDGE", "\n\n">>

general_final_response(general_response) == DisclaimerPrefix \o general_response \o <<"\n">>

\* The message list of the out-of-context branch.
general_messages(notes_context, chat_history, user_query) ==
    (IF notes_context # None
       THEN <<[type |-> "system", content |-> <<"Lecture notes context:\n">> \o The(notes_context)]>>
       ELSE <<>>)
    \o chat_history
    \o <<[type |-> "human", content |-> user_query]>>

\* ChatPromptTemplate.from_messages([...]): every content is a template.
rag_prompt(chat_history) ==
    <<[type |-> "system", content |-> <<"Answer strictly using the provided context.">>],
      [type |-> "system", content |-> <<"Context:\n", "{context}">>]>>
    \o chat_history
    \o <<[type |-> "human", content |-> <<"{question}">>]>>

\* prompt.format_messages(context=..., question=...)
format_messages(prompt, kwargs) ==
    [i \in DOMAIN prompt |->
        [type |-> prompt[i].type, content |-> Substitute(prompt[i].content, kwargs)]]

context_of(docs_with_scores) ==
    Join([i \in DOMAIN docs_with_scores |-> PageContent(docs_with_scores[i].doc)], <<"\n\n">>)

\* app.py chat(): session lookup and load_retriever, then chat_with_transcript starts.
ChatBegin(c, session_id, question) ==
    /\ Cardinality({b \in Calls : Active(b)}) < workers
    /\ calls[c].pc = "idle"
    /\ \A b \in Calls : b < c => calls[b].pc # "idle"
    /\ LET found == {s \in sessions : s.id = session_id}
           session == CHOOSE s \in found : TRUE
           started == [calls EXCEPT ![c].session_id = session_id, ![c].user_query = question]
       IN  IF found = {}
             THEN /\ calls' = [started EXCEPT ![c].pc = "failed", ![c].error = "TypeError:session"]
                  /\ UNCHANGED last_load
             ELSE LET loaded == load_retriever(session.username, session.document_id)
                  IN  /\ last_load' = loaded
                      /\ calls' = IF loaded.found
                                     THEN [started EXCEPT ![c].pc = "history",
                                                          ![c].retriever = loaded.index]
                                     ELSE [started EXCEPT ![c].pc = "failed",
                                                          ![c].error = "TypeError:document"]
    /\ overlapped' = IF \E b \in Calls : b # c /\ Active(b) /\ calls[b].session_id = session_id
                       THEN overlapped \cup {session_id}
                       ELSE overlapped
    /\ UNCHANGED <<documents, faiss, sessions, messages, selected_formats, notes_download,
                   files, clock, workers, last, generated>>

\* lines 101-110: load the chat history
ChatLoadHistory(c) ==
    /\ calls[c].pc = "history"
    /\ \E chat_docs \in sort_by_timestamp(find_messages(calls[c].session_id)) :
          calls' = [calls EXCEPT ![c].pc = "retrieve",
                                 ![c].chat_docs = chat_docs,
                                 ![c].chat_history =
                                     [i \in DOMAIN chat_docs |-> to_chat_message(chat_docs[i])]]
    /\ UNCHANGED <<documents, faiss, sessions, messages, selected_formats, notes_download,
                   files, clock, workers, last, last_load, generated, overlapped>>

\* lines 115-124: retrieve with scores; docs_with_scores[0] raises IndexError on
\* an empty result.
ChatRetrieve(c) ==
    /\ calls[c].pc = "retrieve"
    /\ LET docs_with_scores ==
               similarity_search_with_score(calls[c].retriever, calls[c].user_query, CHAT_K)
       IN  calls' = IF docs_with_scores = <<>>
                      THEN Fail(c, "IndexError")
                      ELSE [calls EXCEPT ![c].pc = "generate",
                                         ![c].docs_with_scores = docs_with_scores,
                                         ![c].is_out_of_context =
                                             IsOutOfContext(docs_with_scores[1].score)]
    /\ UNCHANGED <<documents, faiss, sessions, messages, selected_formats, notes_download,
                   files, clock, workers, last, last_load, generated, overlapped>>

\* lines 129-146 and 170-184: compose the messages and invoke the model.
\* llm.invoke raises when the provider fails.
ChatGenerate(c) ==
    /\ calls[c].pc = "generate"
    /\ LET call == calls[c]
           notes_context == None
           kwargs == ("{context}" :> context_of(call.docs_with_scores))
                     @@ ("{question}" :> call.user_query)
           template == rag_prompt(call.chat_history)
           missing == UNION {MissingFields(template[i].content, kwargs) : i \in DOMAIN template}
           sent == IF call.is_out_of_context
                     THEN general_messages(notes_context, call.chat_history, call.user_query)
                     ELSE format_messages(template, kwargs)
       IN  IF ~call.is_out_of_context /\ missing # {}
             THEN calls' = Fail(c, "KeyError")
             ELSE \/ calls' = [calls EXCEPT ![c].pc = "failed",
                                            ![c].prompt = sent,
                                            ![c].error = "GenerationUnavailable"]
                  \/ \E response \in Responses :
                        calls' = [calls EXCEPT
                                    ![c].pc = "stamp_human",
                                    ![c].prompt = sent,
                                    ![c].response = response,
                                    ![c].answer = IF call.is_out_of_context
                                                    THEN general_final_response(response)
                                                    ELSE response]
    /\ UNCHANGED <<documents, faiss, sessions, messages, selected_formats, notes_download,
                   files, clock, workers, last, last_load, generated, overlapped>>

\* datetime.now(): a reading of the wall clock, not before the previous reading
\* and possibly equal to it.
Now == {t \in clock .. clock + 1 : t <= MaxClock}

\* lines 148-155 / 186-193: the human record is built, reading the clock
ChatStampHuman(c) ==
    /\ calls[c].pc = "stamp_human"
    /\ \E now \in Now :
          /\ clock' = now
          /\ calls' = [calls EXCEPT ![c].pc = "stamp_assistant", ![c].ts_human = now]
    /\ UNCHANGED <<documents, faiss, sessions, messages, selected_formats, notes_download,
                   files, workers, last, last_load, generated, overlapped>>

\* lines 156-162 / 194-200: the assistant record is built, reading the clock
ChatStampAssistant(c) ==
    /\ calls[c].pc = "stamp_assistant"
    /\ \E now \in Now :
          /\ clock' = now
          /\ calls' = [calls EXCEPT ![c].pc = "insert", ![c].ts_assistant = now]
    /\ UNCHANGED <<documents, faiss, sessions, messages, selected_formats, notes_download,
                   files, workers, last, last_load, generated, overlapped>>

\* An insert that stores the human record alone.
ChatInsert_HumanOnly(c) ==
    /\ calls[c].pc = "insert"
    /\ messages' = messages \o
          <<[id |-> <<c, 1>>, session_id |-> calls[c].session_id, role |-> "human",
             content |-> calls[c].user_query, timestamp |-> calls[c].ts_human]>>
    /\ calls' = [calls EXCEPT ![c].pc = "done"]
    /\ UNCHANGED <<documents, faiss, sessions, selected_formats, notes_download,
                   files, clock, workers, last, last_load, generated, overlapped>>

\* messages_col.insert_many([human, assistant]) and the return of the answer
ChatInsert(c) ==
    /\ calls[c].pc = "insert"
    /\ messages' = messages \o
          <<[id |-> <<c, 1>>, session_id |-> calls[c].session_id, role |-> "human",
             content |-> calls[c].user_query, timestamp |-> calls[c].ts_human],
            [id |-> <<c, 2>>, session_id |-> calls[c].session_id, role |-> "assistant",
             content |-> calls[c].answer, timestamp |-> calls[c].ts_assistant]>>
    /\ calls' = [calls EXCEPT ![c].pc = "done"]
    /\ UNCHANGED <<documents, faiss, sessions, selected_formats, notes_download,
                   files, clock, workers, last, last_load, generated, overlapped>>

---------------------------------------------------------------------------
\* app.py and rag_pipeline.py: upload, sessions, formats, notes, downloads

DocIdSeq == <<"d1", "d2", "d3", "d4", "d5">>
SessionIdSeq == <<"s1", "s2", "s3", "s4", "s5", "s6">>

\* transcript_loader.load_transcript: the extension decides the loader; the PDF
\* and SRT loaders refuse a file with no readable text, the TXT loader does not.
load_transcript(file) ==
    CASE file.ext = "txt" -> [ok |-> TRUE, text |-> file.tokens]
      [] file.ext \in {"pdf", "srt"} -> [ok |-> file.tokens > 0, text |-> file.tokens]
      [] OTHER -> [ok |-> FALSE, text |-> 0]

Response(op, session_id, result) ==
    [op |-> op, session_id |-> session_id, result |-> result, notes |-> <<>>,
     docs |-> <<>>, retrieved |-> FALSE, invoked |-> FALSE]

\* POST /documents/upload: load_transcript, then store_document.  The handler
\* and store_document accept any text load_transcript returns, the empty text of
\* an empty .txt file included; FAISS.from_documents is taken to build and save
\* an index of however many chunks the splitter produced.
upload_file(username, file) ==
    /\ Cardinality(documents) < MaxDocuments
    /\ LET loaded == load_transcript(file)
           document_id == DocIdSeq[Cardinality(documents) + 1]
           faiss_path == FaissPath(username, document_id)
           chunks == chunk_text(loaded.text, DEFAULT_CHUNK_SIZE, DEFAULT_CHUNK_OVERLAP)
       IN  IF ~loaded.ok
             THEN /\ last' = Response("upload", "", "HTTP 400")
                  /\ UNCHANGED <<documents, faiss>>
             ELSE /\ faiss' = (faiss_path :> chunks) @@ faiss
                  /\ documents' = documents \cup
                        {[id |-> document_id, username |-> username, content |-> loaded.text,
                          faiss_path |-> faiss_path, chunk_size |-> DEFAULT_CHUNK_SIZE,
                          chunk_overlap |-> DEFAULT_CHUNK_OVERLAP]}
                  /\ last' = Response("upload", "", document_id)
    /\ UNCHANGED <<sessions, messages, selected_formats, notes_download, files, clock,
                   calls, workers, last_load, generated, overlapped>>

\* POST /sessions/create
create_session(username, document_id) ==
    /\ Cardinality(sessions) < MaxSessions
    /\ LET session_id == SessionIdSeq[Cardinality(sessions) + 1]
       IN  /\ sessions' = sessions \cup
                 {[id |-> session_id, username |-> username, document_id |-> document_id]}
           /\ last' = Response("create_session", session_id, document_id)
    /\ UNCHANGED <<documents, faiss, messages, selected_formats, notes_download, files,
                   clock, calls, workers, last_load, generated, overlapped>>

\* The keys of the NotesFormat enumeration; type_17 is "Custom Template".
NotesFormat_members ==
    {"type_1", "type_2", "type_3", "type_4", "type_5", "type_6", "type_7", "type_8",
     "type_9", "type_10", "type_11", "type_12", "type_13", "type_14", "type_15",
     "type_16", "type_17"}

\* A test that takes every given string, the empty one included, as present.
Truthy_NotNone(opt) == opt # None

\* Python truth of an optional string: None and "" are false.
Truthy(opt) == opt # None /\ The(opt) # <<>>

\* POST /formats
select_formats(session_id, notes_format, custom_format) ==
    /\ IF notes_format \notin NotesFormat_members
         THEN /\ last' = Response("formats", session_id, "error: invalid format")
              /\ UNCHANGED selected_formats
         ELSE IF notes_format = "type_17" /\ ~Truthy(custom_format)
         THEN /\ last' = Response("formats", session_id, "error: custom format is required")
              /\ UNCHANGED selected_formats
         ELSE /\ selected_formats' =
                    (session_id :> [notes_format |-> notes_format,
                                    custom_prompt |-> IF notes_format # "type_17"
                                                        THEN None ELSE custom_format])
                    @@ selected_formats
              /\ last' = Response("formats", session_id, "Format selected successfully")
    /\ UNCHANGED <<documents, faiss, sessions, messages, notes_download, files, clock,
                   calls, workers, last_load, generated, overlapped>>

\* prompts.get_prompt_template: the template of a catalog format, or the custom
\* text as the instruction seed, with the placeholder of the context.
get_prompt_template(notes_format, custom_format) ==
    IF notes_format = "type_17"
      THEN The(custom_format) \o <<"\n\n", "{context}">>
      ELSE <<notes_format, "\n\n", "{context}">>

FormatNotSelected == "error: select a notes format first"
SessionNotFound == "error: invalid session"

\* The two early returns with the session looked up first.
generate_notes_precheck_session_first(session_id) ==
    IF {s \in sessions : s.id = session_id} = {} THEN SessionNotFound
    ELSE IF session_id \notin DOMAIN selected_formats THEN FormatNotSelected
    ELSE ""

\* The two early returns of /generate-notes, in the order the handler makes them:
\* "" when the request passes both.
generate_notes_precheck(session_id) ==
    IF session_id \notin DOMAIN selected_formats THEN FormatNotSelected
    ELSE IF {s \in sessions : s.id = session_id} = {} THEN SessionNotFound
    ELSE ""

\* POST /generate-notes, with rag_pipeline.generate_notes inlined.  A raised
\* exception ends the request with the globals as they were.
generate_notes_endpoint(session_id) ==
    /\ LET found == {s \in sessions : s.id = session_id}
           session == CHOOSE s \in found : TRUE
           data == selected_formats[session_id]
           prompt_template == get_prompt_template(data.notes_format, data.custom_prompt)
           retriever == load_retriever(session.username, session.document_id)
           docs == similarity_search_with_score(retriever.index, NotesQuery, NOTES_RETRIEVER_K)
           context == context_of(docs)
           kwargs == "{context}" :> context
           tried == [Response("generate-notes", session_id, "") EXCEPT
                       !.docs = docs, !.retrieved = TRUE]
       IN  IF generate_notes_precheck(session_id) # ""
             THEN /\ last' = Response("generate-notes", session_id,
                                       generate_notes_precheck(session_id))
                  /\ UNCHANGED <<notes_download, generated, last_load>>
           ELSE /\ last_load' = retriever
                /\ IF ~retriever.found
                     THEN /\ last' = Response("generate-notes", session_id, "TypeError")
                          /\ UNCHANGED <<notes_download, generated>>
                   ELSE IF MissingFields(prompt_template, kwargs) # {}
                     THEN /\ last' = [tried EXCEPT !.result = "KeyError"]
                          /\ UNCHANGED <<notes_download, generated>>
                   ELSE \/ /\ last' = [tried EXCEPT !.result = "GenerationUnavailable",
                                                     !.invoked = TRUE]
                           /\ UNCHANGED <<notes_download, generated>>
                        \/ \E response \in NoteTexts :
                              /\ notes_download' = response
                              /\ generated' = Some(response)
                              /\ last' = [tried EXCEPT !.result = "notes", !.invoked = TRUE,
                                                       !.notes = response]
    /\ UNCHANGED <<documents, faiss, sessions, messages, selected_formats, files, clock,
                   calls, workers, overlapped>>

\* A PDF download that tests the notes for emptiness without stripping them.
download_pdf_unstripped(pdfname) ==
    /\ IF notes_download = <<>>
         THEN /\ last' = Response("download/pdf", "", "error: no notes available")
              /\ UNCHANGED files
         ELSE /\ files' = (<<pdfname, "pdf">> :> notes_download) @@ files
              /\ last' = [Response("download/pdf", "", "file") EXCEPT !.notes = notes_download]
    /\ UNCHANGED <<documents, faiss, sessions, messages, selected_formats, notes_download,
                   clock, calls, workers, last_load, generated, overlapped>>

\* POST /download/pdf
download_pdf(pdfname) ==
    /\ IF Strip(notes_download) = <<>>
         THEN /\ last' = Response("download/pdf", "", "error: no notes available")
              /\ UNCHANGED files
         ELSE /\ files' = (<<pdfname, "pdf">> :> notes_download) @@ files
              /\ last' = [Response("download/pdf", "", "file") EXCEPT !.notes = notes_download]
    /\ UNCHANGED <<documents, faiss, sessions, messages, selected_formats, notes_download,
                   clock, calls, workers, last_load, generated, overlapped>>

\* POST /download/markdown
download_markdown(mdname) ==
    /\ IF Strip(notes_download) = <<>>
         THEN /\ last' = Response("download/markdown", "", "error: no notes available")
              /\ UNCHANGED <<files, notes_download>>
         ELSE /\ notes_download' = Strip(notes_download)
              /\ files' = (<<mdname, "md">> :> Strip(notes_download)) @@ files
              /\ last' = [Response("download/markdown", "", "file") EXCEPT
                            !.notes = Strip(notes_download)]
    /\ UNCHANGED <<documents, faiss, sessions, messages, selected_formats,
                   clock, calls, workers, last_load, generated, overlapped>>

---------------------------------------------------------------------------
\* A populated store: what uploads and /sessions/create leave behind.

Document(id, username, content) ==
    [id |-> id, username |-> username, content |-> content,
     faiss_path |-> FaissPath(username, id),
     chunk_size |-> DEFAULT_CHUNK_SIZE, chunk_overlap |-> DEFAULT_CHUNK_OVERLAP]

WorldDocuments ==
    {Document("d1", "alice", 2700), Document("d2", "bob", 500), Document("d3", "alice", 0)}

WorldFaiss ==
    [p \in {d.faiss_path : d \in WorldDocuments} |->
        LET d == CHOOSE x \in WorldDocuments : x.faiss_path = p
        IN  chunk_text(d.content, d.chunk_size, d.chunk_overlap)]

Session(id, username, document_id) ==
    [id |-> id, username |-> username, document_id |-> document_id]

WorldSessions ==
    {Session("s1", "alice", "d1"), Session("s2", "bob", "d2"), Session("s3", "alice", "d3"),
     Session("s4", "alice", "d2"), Session("s5", "bob", UnknownDocId)}

NoRequest == Response("", "", "")

\* The populated store, with `n` threadpool workers serving /chat.
InitWorld(n) ==
    /\ documents = WorldDocuments
    /\ faiss = WorldFaiss
    /\ sessions = WorldSessions
    /\ messages = <<>>
    /\ selected_formats = EmptyMap
    /\ notes_download = <<>>
    /\ files = EmptyMap
    /\ clock = 0
    /\ calls = [c \in Calls |-> IdleCall]
    /\ workers = n
    /\ last = NoRequest
    /\ last_load = NoLoad
    /\ generated = None
    /\ overlapped = {}

\* The state after construction: empty collections, empty globals.
Init ==
    /\ documents = {}
    /\ faiss = EmptyMap
    /\ sessions = {}
    /\ messages = <<>>
    /\ selected_formats = EmptyMap
    /\ notes_download = <<>>
    /\ files = EmptyMap
    /\ clock = 0
    /\ calls = [c \in Calls |-> IdleCall]
    /\ workers = 1
    /\ last = NoRequest
    /\ last_load = NoLoad
    /\ generated = None
    /\ overlapped = {}

ChatSteps(c) ==
    \/ ChatLoadHistory(c)
    \/ ChatRetrieve(c)
    \/ ChatGenerate(c)
    \/ ChatStampHuman(c)
    \/ ChatStampAssistant(c)
    \/ ChatInsert(c)

---------------------------------------------------------------------------
\* Uploads, sessions and the two operations that load an index, from the empty store.

UploadInputs ==
    {<<"alice", [ext |-> "txt", tokens |-> 2700]>>,
     <<"bob", [ext |-> "txt", tokens |-> 0]>>,
     <<"bob", [ext |-> "pdf", tokens |-> 0]>>}

Next ==
    \/ \E in \in UploadInputs : upload_file(in[1], in[2])
    \/ \E username \in Users, document_id \in {d.id : d \in documents} \cup {UnknownDocId} :
          create_session(username, document_id)
    \/ \E session_id \in {x.id : x \in sessions} : select_formats(session_id, "type_1", None)
    \/ \E session_id \in {x.id : x \in sessions} \cup {UnknownSessionId} :
          generate_notes_endpoint(session_id)
    \/ \E session_id \in {x.id : x \in sessions} \cup {UnknownSessionId} :
          ChatBegin(1, session_id, QIn)
    \/ ChatSteps(1)

Spec == Init /\ [][Next]_vars

---------------------------------------------------------------------------
\* /chat on the populated store: one request at a time, and two at a time.

ChatSessionInputs == {"s1", "s2", "s3"}

NextChat ==
    \/ \E c \in Calls, session_id \in ChatSessionInputs, question \in Queries :
          ChatBegin(c, session_id, question)
    \/ \E c \in Calls : ChatSteps(c)

SpecSeq == InitWorld(1) /\ [][NextChat]_vars

SpecChat == InitWorld(MaxCalls) /\ [][NextChat]_vars

---------------------------------------------------------------------------
\* Formats, notes and downloads on the populated store, with /chat beside them.

NotesSessionInputs == {"s1", UnknownSessionId}

FormatInputs == {"type_1", "type_17", "Custom Template"}

CustomInputs == {None, Some(<<>>), Some(<<"my", "template">>), Some(<<"my", "{x}">>)}

NextNotes ==
    \/ \E session_id \in NotesSessionInputs, notes_format \in FormatInputs,
          custom_format \in CustomInputs :
          select_formats(session_id, notes_format, custom_format)
    \/ \E session_id \in NotesSessionInputs : generate_notes_endpoint(session_id)
    \/ download_pdf("notes")
    \/ download_markdown("notes")
    \/ ChatBegin(1, "s1", QOut)
    \/ ChatSteps(1)

SpecNotes == InitWorld(1) /\ [][NextNotes]_vars

---------------------------------------------------------------------------
\* Properties

SessionExists(session_id) == \E s \in sessions : s.id = session_id

\* history(session_id): every result the timestamp-ordered read can give
history(session_id) == sort_by_timestamp(find_messages(session_id))

\* The completed /chat requests of a session, in the order they were made.
CompletedCalls(session_id) ==
    LET Completed(c) == calls[c].session_id = session_id /\ calls[c].pc = "done"
    IN  SelectSeq([c \in Calls |-> c], Completed)

HasDisclaimer(text) ==
    /\ Len(text) >= Len(DisclaimerPrefix)
    /\ SubSeq(text, 1, Len(DisclaimerPrefix)) = DisclaimerPrefix

Generated(c) == calls[c].pc \in {"stamp_human", "stamp_assistant", "insert", "done"}

\* C1: after n sequential successful chat calls on a session, every
\* timestamp-ordered read of its memory holds exactly 2n messages: the i-th
\* call's question as a user message, then its answer as an assistant message.
C1_SequentialHistory ==
    \A session_id \in ChatSessionInputs :
        (session_id \notin overlapped) =>
            \A h \in history(session_id) :
                LET done == CompletedCalls(session_id)
                IN  /\ Len(h) = 2 * Len(done)
                    /\ \A i \in DOMAIN done :
                          /\ h[2 * i - 1].role = "human"
                          /\ h[2 * i - 1].content = calls[done[i]].user_query
                          /\ h[2 * i].role = "assistant"
                          /\ h[2 * i].content = calls[done[i]].answer

\* C2: a call is out-of-context iff its top-1 score exceeds 1.0, the answer
\* carries the disclaimer prefix iff the call is out-of-context, and the stored
\* assistant message is that answer.
C2_DisclaimerIffOutOfContext ==
    \A c \in Calls :
        Generated(c) =>
            /\ calls[c].is_out_of_context <=>
                    (calls[c].docs_with_scores[1].score > SIMILARITY_THRESHOLD)
            /\ HasDisclaimer(calls[c].answer) <=> calls[c].is_out_of_context
            /\ calls[c].pc = "done" =>
                    \E i \in DOMAIN messages :
                        /\ messages[i].id = <<c, 2>>
                        /\ messages[i].role = "assistant"
                        /\ messages[i].content = calls[c].answer

C2_Witness ==
    \E c, d \in Calls :
        /\ calls[c].pc = "done" /\ calls[d].pc = "done"
        /\ calls[c].docs_with_scores[1].score = SIMILARITY_THRESHOLD
        /\ ~HasDisclaimer(calls[c].answer)
        /\ calls[d].is_out_of_context
        /\ HasDisclaimer(calls[d].answer)

\* C3 as stated: generate-notes for an existing session without a format
\* selection answers FormatNotSelected, and for a session id that is not in the
\* session store answers SessionNotFound; neither retrieves nor generates.
C3_UnknownSessionIsSessionNotFound ==
    last.op = "generate-notes" =>
        /\ (~SessionExists(last.session_id)) => (last.result = SessionNotFound)
        /\ (SessionExists(last.session_id) /\ last.session_id \notin DOMAIN selected_formats)
              => (last.result = FormatNotSelected)
        /\ (last.result \in {FormatNotSelected, SessionNotFound})
              => (~last.retrieved /\ ~last.invoked)

\* C3 as amended: without a format selection under the session id the answer
\* is FormatNotSelected, whether or not the session exists; with one and no
\* such session it is SessionNotFound.  Either way nothing is retrieved or
\* generated and the last-generated notes stay as they were; notes are
\* returned only for a session that exists and has a selection.
C3_FormatCheckedFirst ==
    /\ [](last.op = "generate-notes" =>
            /\ (last.session_id \notin DOMAIN selected_formats)
                  => (last.result = FormatNotSelected)
            /\ (last.session_id \in DOMAIN selected_formats /\ ~SessionExists(last.session_id))
                  => (last.result = SessionNotFound)
            /\ (last.result \in {FormatNotSelected, SessionNotFound})
                  => (~last.retrieved /\ ~last.invoked)
            /\ (last.result = "notes")
                  => /\ SessionExists(last.session_id)
                     /\ last.session_id \in DOMAIN selected_formats)
    /\ [][(/\ calls' = calls
            /\ last'.op = "generate-notes"
            /\ last'.result \in {FormatNotSelected, SessionNotFound})
            => /\ notes_download' = notes_download
               /\ generated' = generated
               /\ last_load' = last_load]_vars

C3_Witness ==
    /\ last.op = "generate-notes"
    /\ last.result = SessionNotFound
    /\ last.session_id \in DOMAIN selected_formats
    /\ notes_download # <<>>

\* C4: a stored custom-template selection carries non-empty custom text, a
\* stored catalog selection carries none, and a failed selection request
\* leaves the mapping as it was.
C4_CustomTextInvariant ==
    /\ [](\A session_id \in DOMAIN selected_formats :
            LET data == selected_formats[session_id]
            IN  /\ data.notes_format \in NotesFormat_members
                /\ (data.notes_format = "type_17")
                      => (data.custom_prompt # None /\ The(data.custom_prompt) # <<>>)
                /\ (data.notes_format # "type_17") => (data.custom_prompt = None))
    /\ [][(last'.op = "formats" /\ last'.result # "Format selected successfully")
            => (selected_formats' = selected_formats)]_vars

C4_Witness ==
    /\ last.op = "formats"
    /\ last.result = "error: custom format is required"
    /\ last.session_id \in DOMAIN selected_formats
    /\ \E a, b \in DOMAIN selected_formats :
          /\ selected_formats[a].notes_format = "type_17"
          /\ selected_formats[b].notes_format = "type_1"

\* C5: the step in which the generation call fails leaves the conversation
\* memory as it was, and the memory changes only by one call appending its user
\* and assistant messages together, after its generation succeeded.
C5_NoPartialAppend ==
    /\ [](\A c \in Calls :
            Cardinality({i \in DOMAIN messages : messages[i].id[1] = c})
                = IF calls[c].pc = "done" THEN 2 ELSE 0)
    /\ [][
           /\ \A c \in Calls :
                (calls'[c].error = "GenerationUnavailable" /\ calls[c].error = "")
                    => (messages' = messages)
           /\ (messages' # messages) =>
                \E c \in Calls :
                    /\ calls[c].pc = "insert"
                    /\ calls[c].response \in Responses
                    /\ Len(messages') = Len(messages) + 2
                    /\ SubSeq(messages', 1, Len(messages)) = messages
                    /\ messages'[Len(messages) + 1].role = "human"
                    /\ messages'[Len(messages) + 1].content = calls[c].user_query
                    /\ messages'[Len(messages) + 2].role = "assistant"
                    /\ messages'[Len(messages) + 2].content = calls[c].answer]_vars

C5_Witness ==
    \E c, d \in Calls :
        /\ calls[c].pc = "done"
        /\ calls[d].error = "GenerationUnavailable"
        /\ calls[d].session_id = calls[c].session_id
        /\ ~calls[d].is_out_of_context
        /\ Len(messages) = 2

C7_LoadByOwnerAndId ==
    /\ (last_load # NoLoad) =>
          LET docs == {d \in documents : /\ d.id = last_load.document_id
                                         /\ d.username = last_load.username}
          IN  /\ last_load.found <=> docs # {}
              /\ (~last_load.found) => (last_load.index = <<>>)
              /\ \A d \in docs :
                    last_load.index = chunk_text(d.content, d.chunk_size, d.chunk_overlap)
    /\ \A c \in Calls :
          (calls[c].pc # "idle" /\ calls[c].error # "TypeError:session") =>
              \E s \in sessions :
                  /\ s.id = calls[c].session_id
                  /\ LET docs == {d \in documents : d.id = s.document_id /\ d.username = s.username}
                     IN  /\ (docs = {}) <=> (calls[c].error = "TypeError:document")
                         /\ (docs = {}) => (calls[c].pc = "failed" /\ calls[c].retriever = <<>>)
                         /\ \A d \in docs :
                               calls[c].retriever = chunk_text(d.content, d.chunk_size, d.chunk_overlap)
    /\ (last.op = "generate-notes" /\ last.result \notin {FormatNotSelected, SessionNotFound}) =>
          \E s \in sessions :
              /\ s.id = last.session_id
              /\ LET docs == {d \in documents : d.id = s.document_id /\ d.username = s.username}
                 IN  /\ (docs = {}) <=> (last.result = "TypeError")
                     /\ (docs = {}) => (~last.retrieved /\ ~last.invoked)

C7_Witness ==
    /\ calls[1].error = "TypeError:document"
    /\ ~last_load.found
    /\ \E d \in documents :
          d.id = last_load.document_id /\ d.username # last_load.username

\* C8: when chat calls of one session overlap, every read of its history still
\* has each call's user message immediately followed by that call's assistant
\* message.  (Stated for memories whose timestamps are all different.)
C8_PairsNotInterleaved ==
    \A session_id \in ChatSessionInputs :
        LET stored == find_messages(session_id)
        IN  (\A m, n \in stored : (m # n) => (m.timestamp # n.timestamp)) =>
                \A h \in history(session_id) :
                    \A i \in DOMAIN h :
                        (i % 2 = 1) =>
                            /\ i + 1 <= Len(h)
                            /\ h[i].role = "human"
                            /\ h[i + 1].role = "assistant"
                            /\ h[i + 1].id[1] = h[i].id[1]

\* C9: in the in-context branch the messages passed to the generation client
\* are the instruction, the context, the stored history with each message's
\* role and text, then the new user query.
C9_PromptReplaysHistory ==
    \A c \in Calls :
        ((Generated(c) \/ calls[c].error = "GenerationUnavailable") /\ ~calls[c].is_out_of_context) =>
            calls[c].prompt =
                <<[type |-> "system", content |-> <<"Answer strictly using the provided context.">>],
                  [type |-> "system",
                   content |-> <<"Context:\n">> \o context_of(calls[c].docs_with_scores)]>>
                \o [i \in DOMAIN calls[c].chat_docs |->
                       [type |-> IF calls[c].chat_docs[i].role = "human" THEN "human" ELSE "ai",
                        content |-> calls[c].chat_docs[i].content]]
                \o <<[type |-> "human", content |-> calls[c].user_query]>>

Blank(text) == Strip(text) = <<>>

\* C10: notes_download is empty while no generate-notes call has succeeded and
\* afterwards the text of the latest successful one, possibly stripped; a
\* download answers the error, and writes nothing, exactly when it is blank;
\* only a successful generate-notes and the markdown download's strip change it.
C10_LastGeneratedNotes ==
    /\ [](/\ (generated = None) => (notes_download = <<>>)
          /\ (generated # None) =>
                (notes_download \in {The(generated), Strip(The(generated))}))
    /\ [][
           /\ (last'.op \in {"download/pdf", "download/markdown"}) =>
                /\ (last'.result = "error: no notes available") <=> Blank(notes_download)
                /\ (last'.result = "error: no notes available") => (files' = files)
                /\ (last'.result # "error: no notes available") =>
                      /\ last'.result = "file"
                      /\ \E path \in DOMAIN files' : files'[path] = last'.notes
           /\ (notes_download' # notes_download) =>
                \/ /\ last'.op = "generate-notes"
                   /\ last'.result = "notes"
                   /\ notes_download' = last'.notes
                \/ /\ last'.op = "download/markdown"
                   /\ last'.result = "file"
                   /\ notes_download' = Strip(notes_download)
           /\ (calls' # calls \/ selected_formats' # selected_formats)
                => (notes_download' = notes_download)]_vars

C10_Witness ==
    /\ last.op = "download/pdf"
    /\ last.result = "error: no notes available"
    /\ notes_download = <<" ">>
    /\ calls[1].pc = "done"

====
